---------------------------- MODULE Spec2Model ----------------------------
(***************************************************************************)
(* Model of backend/main.py: the Kabaddi text-to-SQL question answering    *)
(* service (clean_sql_query, KabaddiSystem.answer, the /health and /ask    *)
(* endpoints).                                                             *)
(*                                                                         *)
(* Texts are sequences of lexemes.  A lexeme is a run of characters that   *)
(* the regular expressions of the source either match as a whole or not    *)
(* at all (a fence marker, "SELECT", "http", "://", a blank, ...), so a   *)
(* pattern of the source is modelled lexeme by lexeme, with its           *)
(* alternation order, greediness and laziness.                             *)
(***************************************************************************)
EXTENDS Naturals, Sequences, FiniteSets

VARIABLES
    system,        \* module-level handle: "ok" (a KabaddiSystem) or "none"
    store,         \* rows of table S_RBR in the in-memory SQLite engine
    table_info,    \* KabaddiSystem.table_info, the schema description
    pc,            \* position of the request being handled
    question,      \* request.question of the current request
    input_tokens,  \* answer(): token count of the generation prompt
    pending,       \* generate branches of the RunnableParallel in flight
    raw_query,     \* chain field "raw_query"
    query,         \* chain field "query"
    llm_response,  \* text the model returned on the "query" branch
    result,        \* chain field "result"
    error,         \* the exception answer()'s except block caught and logged
    calls,         \* collaborator calls issued for the current request
    response,      \* what /ask returned for the current request
    health_out     \* what /health returned last

vars == << system, store, table_info, pc, question, input_tokens, pending,
           raw_query, query, llm_response, result, error, calls, response,
           health_out >>

---------------------------------------------------------------------------
(* Bounds of the model.                                                    *)

MaxRawLen == 4

MaxAnswerLen == 3

---------------------------------------------------------------------------
(* Texts.                                                                  *)

NONE == << "<unset>" >>

\* The fence marker, three backticks (a string literal cannot hold a backtick).
FENCE == "[fence]"

SeqsUpTo(S, n) == UNION { [1..k -> S] : k \in 0..n }

\* \s of the regular expressions and the characters str.strip() removes.
IsSpace(c) == c \in {" ", "\n"}

IsPrefix(p, t) == Len(p) <= Len(t) /\ SubSeq(t, 1, Len(p)) = p

Drop(t, n) == SubSeq(t, n + 1, Len(t))

\* Index of the first element of t at or after i that is in S; Len(t) + 1
\* when there is none.
FirstIn(t, i, S) ==
    LET hits == { j \in i..Len(t) : t[j] \in S }
    IN  IF hits = {} THEN Len(t) + 1
        ELSE CHOOSE j \in hits : \A k \in hits : j <= k

\* Position reached by a greedy \s* that starts at i.
SkipWs(t, i) ==
    LET hits == { j \in i..Len(t) : ~IsSpace(t[j]) }
    IN  IF hits = {} THEN Len(t) + 1
        ELSE CHOOSE j \in hits : \A k \in hits : j <= k

RECURSIVE RStrip(_)
RStrip(t) ==
    IF t = << >> THEN << >>
    ELSE IF IsSpace(t[Len(t)]) THEN RStrip(SubSeq(t, 1, Len(t) - 1))
    ELSE t

\* str.strip()
Strip(t) == RStrip(Drop(t, SkipWs(t, 1) - 1))

\* re.sub(r'\s+', ' ', t)
RECURSIVE CollapseWs(_)
CollapseWs(t) ==
    IF t = << >> THEN << >>
    ELSE IF IsSpace(t[1]) THEN << " " >> \o CollapseWs(Drop(t, SkipWs(t, 1) - 1))
    ELSE << t[1] >> \o CollapseWs(Tail(t))

---------------------------------------------------------------------------
(* clean_sql_query                                                         *)

\* The alternatives of (?:sql|SQL|SQLQuery|mysql|postgresql)? in the order
\* the pattern lists them; the ? adds the empty alternative last.
TagAlternatives ==
    << << "sql" >>, << "SQL" >>, << "SQL", "Query" >>, << "mysql" >>,
       << "postgresql" >>, << >> >>

HasFence(t) == \E i \in 1..Len(t) : t[i] = FENCE

\* The text after an opening fence: the alternatives that let the whole
\* block pattern match (the tag is a prefix and a closing fence follows).
TagMatches(rest) ==
    { a \in 1..Len(TagAlternatives) :
        /\ IsPrefix(TagAlternatives[a], rest)
        /\ HasFence(Drop(rest, Len(TagAlternatives[a]))) }

\* The alternative the regex engine settles on: the first that matches.
TagChosen(rest) ==
    TagAlternatives[CHOOSE a \in TagMatches(rest) :
                        \A b \in TagMatches(rest) : a <= b]

\* re.sub(block_pattern, r"\1", text, flags=re.DOTALL): every fenced block,
\* left to right, is replaced by its group 1: what lies between the tag and
\* the first closing fence, without the whitespace \s* takes on both sides.
RECURSIVE SubBlocks(_)
SubBlocks(t) ==
    IF t = << >> THEN << >>
    ELSE IF t[1] = FENCE /\ TagMatches(Tail(t)) # {} THEN
        LET body == Drop(Tail(t), Len(TagChosen(Tail(t))))
            k    == FirstIn(body, 1, {FENCE})
        IN  Strip(SubSeq(body, 1, k - 1)) \o SubBlocks(Drop(body, k))
    ELSE << t[1] >> \o SubBlocks(Tail(t))

\* Lexemes that SQL, Query, MySQL and PostgreSQL match under re.IGNORECASE.
IsSqlWord(c) == c \in {"SQL", "sql"}

IsQueryWord(c) == c \in {"Query"}

IsMySqlWord(c) == c \in {"mysql"}

IsPostgreSqlWord(c) == c \in {"postgresql"}

\* Positions right after the label name, one per alternative of
\* (?:SQL\s*Query|SQLQuery|MySQL|PostgreSQL|SQL) that matches at the start
\* of t, in the order of the alternatives (0: the alternative fails).
LabelNameEnds(t) ==
    LET q == IF t # << >> /\ IsSqlWord(t[1]) THEN SkipWs(t, 2) ELSE 0
    IN  << IF q > 0 /\ q <= Len(t) /\ IsQueryWord(t[q]) THEN q + 1 ELSE 0,
           IF Len(t) >= 2 /\ IsSqlWord(t[1]) /\ IsQueryWord(t[2]) THEN 3 ELSE 0,
           IF t # << >> /\ IsMySqlWord(t[1]) THEN 2 ELSE 0,
           IF t # << >> /\ IsPostgreSqlWord(t[1]) THEN 2 ELSE 0,
           IF t # << >> /\ IsSqlWord(t[1]) THEN 2 ELSE 0 >>

\* The alternatives after which \s*: matches.
LabelMatches(t) ==
    { a \in 1..5 :
        LET p == LabelNameEnds(t)[a]
        IN  /\ p > 0
            /\ SkipWs(t, p) <= Len(t)
            /\ t[SkipWs(t, p)] = ":" }

\* re.sub(prefix_pattern, "", text, flags=re.IGNORECASE): ^ anchors the
\* pattern at the start of the text; the label, its colon and the
\* whitespace after it are removed.
StripLabel(t) ==
    IF LabelMatches(t) = {} THEN t
    ELSE LET a     == CHOOSE x \in LabelMatches(t) : \A y \in LabelMatches(t) : x <= y
             colon == SkipWs(t, LabelNameEnds(t)[a])
         IN  Drop(t, SkipWs(t, colon + 1) - 1)

\* The lexemes SELECT matches under re.IGNORECASE.
SelectWords_caseSensitive == {"SELECT"}

SelectWords == {"SELECT", "select"}

\* re.search(r"(SELECT.*?;)", text, IGNORECASE | DOTALL): the leftmost
\* SELECT that a ';' follows, up to the first ';' after it.
SelectStart(t) == FirstIn(t, 1, SelectWords)

SelectEnd(t) == FirstIn(t, SelectStart(t) + 1, {";"})

HasSelectStatement(t) == SelectStart(t) <= Len(t) /\ SelectEnd(t) <= Len(t)

clean_sql_query(text) ==
    LET t1 == SubBlocks(text)
        t2 == StripLabel(t1)
        t3 == IF HasSelectStatement(t2)
              THEN SubSeq(t2, SelectStart(t2), SelectEnd(t2))
              ELSE t2
    IN  CollapseWs(Strip(t3))

---------------------------------------------------------------------------
(* Token accounting and the generation prompt                              *)

\* len(self.encoder.encode(text)): one token per lexeme of the text.
Count(text) == Len(text)

\* SYSTEM_PROMPT_TEMPLATE.format(input=question, table_info=..., top_k="5"):
\* the template places top_k, then table_info, then the question.
PromptStr(q, info) ==
    << "[intro]", "5", "[rules]" >> \o info \o << "[format]" >> \o q \o << "\n" >>

---------------------------------------------------------------------------
(* URL extraction from the answer                                          *)

UrlTerminators_spaceOnly == {" ", "\n"}

\* The characters [^\s|] excludes.
UrlTerminators == {" ", "\n", "|"}

\* Length of the match of https?:// at position i of t (0: no match).
SchemeLen(t, i) ==
    IF i > Len(t) \/ t[i] # "http" THEN 0
    ELSE IF i + 2 <= Len(t) /\ t[i + 1] = "s" /\ t[i + 2] = "://" THEN 3
    ELSE IF i + 1 <= Len(t) /\ t[i + 1] = "://" THEN 2
    ELSE 0

\* re.findall(r"https?://[^\s|]+", t) from position i on: the matches do
\* not overlap, [^\s|]+ is greedy and needs one character at least.
RECURSIVE FindUrls(_, _)
FindUrls(t, i) ==
    IF i > Len(t) THEN << >>
    ELSE LET n == SchemeLen(t, i)
             e == FirstIn(t, i + n, UrlTerminators)
         IN  IF n > 0 /\ e > i + n
             THEN << SubSeq(t, i, e - 1) >> \o FindUrls(t, e)
             ELSE FindUrls(t, i + 1)

\* url_dicts = [{"url": u} for u in urls]
UrlDicts(answer) ==
    LET urls == FindUrls(answer, 1)
    IN  [k \in 1..Len(urls) |-> [url |-> urls[k]]]

---------------------------------------------------------------------------
(* The relational store behind QuerySQLDataBaseTool                        *)

\* SQL ignores the whitespace between its tokens.
SqlTokens(sql) == SelectSeq(sql, LAMBDA c : ~IsSpace(c))

\* A statement SQLite runs as a read of S_RBR (the final ';' is optional).
IsReadStatement(sql) ==
    LET t == SqlTokens(sql)
    IN  /\ Len(t) \in {2, 3}
        /\ t[1] \in {"SELECT", "select"}
        /\ t[2] = "x"
        /\ Len(t) = 3 => t[3] = ";"

\* A statement SQLite runs as a write: it deletes the rows of S_RBR.
IsWriteStatement(sql) == SqlTokens(sql) \in { << "DELETE" >>, << "DELETE", ";" >> }

\* What SQLite answers to any other statement, as the tool renders it.
SqlErrorText == << "Error:", " ", "(sqlite3.OperationalError)" >>

QuerySQLDataBaseTool_raising(sql, rows) ==
    IF IsReadStatement(sql) THEN [raised |-> FALSE, text |-> rows, rows |-> rows]
    ELSE IF IsWriteStatement(sql) THEN [raised |-> FALSE, text |-> << >>, rows |-> << >>]
    ELSE [raised |-> TRUE, text |-> NONE, rows |-> rows]

\* QuerySQLDataBaseTool(db=self.db) run on a statement: the rows as text
\* ("" for none), the statement's effect on the table, and, for a statement
\* the engine rejects, the error as text: the tool returns it, it does not
\* raise.
QuerySQLDataBaseTool(sql, rows) ==
    IF IsReadStatement(sql) THEN [raised |-> FALSE, text |-> rows, rows |-> rows]
    ELSE IF IsWriteStatement(sql) THEN [raised |-> FALSE, text |-> << >>, rows |-> << >>]
    ELSE [raised |-> FALSE, text |-> SqlErrorText, rows |-> rows]

---------------------------------------------------------------------------
(* Responses                                                               *)

NoResponse ==
    [kind |-> "none", status |-> "", answer |-> << >>, query |-> << >>,
     tokens_used |-> 0, raw_results |-> << >>]

\* raise HTTPException(status_code=code, ...)
HttpError(code) == [NoResponse EXCEPT !.kind = "http", !.status = code]

NoDataAnswer == << "No", " ", "data", " ", "available." >>

ShortCircuits_never(text) == FALSE

\* not x["result"].strip()
ShortCircuits(text) == Strip(text) = << >>

SuccessEnvelope_outputOnly(answer, q, in_tokens) ==
    [kind |-> "envelope", status |-> "success", answer |-> answer, query |-> q,
     tokens_used |-> Count(answer), raw_results |-> UrlDicts(answer)]

\* The return of the try block: output_tokens, total_tokens, url_dicts.
SuccessEnvelope(answer, q, in_tokens) ==
    [kind |-> "envelope", status |-> "success", answer |-> answer, query |-> q,
     tokens_used |-> in_tokens + Count(answer), raw_results |-> UrlDicts(answer)]

ErrorEnvelope_noTokens(in_tokens) ==
    [kind |-> "envelope", status |-> "error", answer |-> << >>, query |-> << >>,
     tokens_used |-> 0, raw_results |-> << >>]

\* The return of the except block; raw_results keeps QueryData's default.
ErrorEnvelope(in_tokens) ==
    [kind |-> "envelope", status |-> "error", answer |-> << >>, query |-> << >>,
     tokens_used |-> in_tokens, raw_results |-> << >>]

---------------------------------------------------------------------------
(* Inputs                                                                  *)

\* request.question
Questions == { << >>, << " " >>, << "q" >>, << " ", "q", "\n" >> }

\* Rows the spreadsheet may hold at startup.
InitialRows == { << >>, << "row" >> }

\* self.db.get_table_info()
SchemaText == << "S_RBR(x)" >>

\* Texts the language model may return for the generation prompt.
ModelQueries ==
    { << "SELECT", " ", "x", ";" >>,
      << FENCE, "sql", "\n", "SELECT", " ", "x", ";", "\n", FENCE >>,
      << "SQL", "Query", ":", " ", "select", " ", "x", ";" >>,
      << "SELECT", " ", "x" >>,
      << FENCE, "SQL", "Query", "\n", "SELECT", " ", "x", "\n", FENCE >>,
      << "x" >>,
      << "DELETE", ";" >> }

CleanAlphabet ==
    { FENCE, "sql", "SQL", "Query", ":", " ", "\n", "SELECT", "select", ";", "x" }

\* Every text of at most MaxRawLen lexemes, for clean_sql_query.
RawTexts == SeqsUpTo(CleanAlphabet, MaxRawLen)

UrlAlphabet == { "http", "s", "://", "a", " ", "|" }

\* Texts the language model may return for the answer prompt: every text of
\* at most MaxAnswerLen lexemes, and two longer ones with links in them.
ModelAnswers ==
    SeqsUpTo(UrlAlphabet, MaxAnswerLen)
        \cup { << "a", " ", "http", "s", "://", "a", "|", "a", " ", "a" >>,
               << "http", "://", "a", " ", "http", "s", "://", "a", "\n" >> }

---------------------------------------------------------------------------
(* Startup: system = KabaddiSystem(), or None when construction raises     *)

Init ==
    /\ system \in {"ok", "none"}
    /\ store \in InitialRows
    /\ table_info = SchemaText
    /\ pc = "idle"
    /\ question = NONE
    /\ input_tokens = 0
    /\ pending = {}
    /\ raw_query = NONE
    /\ query = NONE
    /\ llm_response = NONE
    /\ result = NONE
    /\ error = "none"
    /\ calls = << >>
    /\ response = NoResponse
    /\ health_out = "none"

---------------------------------------------------------------------------
(* GET /health                                                             *)

Health ==
    /\ health_out' = IF system = "ok" THEN "healthy" ELSE "unhealthy"
    /\ UNCHANGED << system, store, table_info, pc, question, input_tokens,
                    pending, raw_query, query, llm_response, result, error,
                    calls, response >>

---------------------------------------------------------------------------
(* POST /ask                                                               *)

AskAccepts_noEmptyCheck(sys, q) == sys = "ok"

\* Neither "if not system" nor "if not request.question.strip()" rejects.
AskAccepts(sys, q) == sys = "ok" /\ Strip(q) # << >>

\* A request that ask() rejects: no call of system.answer.
AskRejected(q, code) ==
    /\ pc = "idle"
    /\ question' = q
    /\ response' = HttpError(code)
    /\ input_tokens' = 0
    /\ pending' = {}
    /\ raw_query' = NONE
    /\ query' = NONE
    /\ llm_response' = NONE
    /\ result' = NONE
    /\ error' = "none"
    /\ calls' = << >>
    /\ UNCHANGED << system, store, table_info, pc, health_out >>

AskNotInitialized ==
    \E q \in Questions :
        /\ system # "ok"
        /\ AskRejected(q, "500")

AskEmptyQuestion ==
    \E q \in Questions :
        /\ system = "ok"
        /\ ~AskAccepts(system, q)
        /\ AskRejected(q, "400")

\* ask() calls system.answer(question): the prompt is formatted and
\* counted, then chain.invoke reaches the assign of raw_query and query, a
\* RunnableParallel that submits both branches, each a call of
\* self.generate_query, before it waits for either.
AskStart ==
    \E q \in Questions :
        /\ pc = "idle"
        /\ AskAccepts(system, q)
        /\ question' = q
        /\ input_tokens' = Count(PromptStr(q, table_info))
        /\ pending' = {"raw_query", "query"}
        /\ calls' = << "generate", "generate" >>
        /\ raw_query' = NONE
        /\ query' = NONE
        /\ llm_response' = NONE
        /\ result' = NONE
        /\ error' = "none"
        /\ response' = NoResponse
        /\ pc' = "generating"
        /\ UNCHANGED << system, store, table_info, health_out >>

\* The except block of answer(): the error envelope is returned.
ReturnError ==
    /\ response' = ErrorEnvelope(input_tokens)
    /\ raw_query' = NONE
    /\ pc' = "idle"

\* After a generate branch ended, leaving `left` in flight: the parallel
\* step waits for every branch, raises if one raised, and otherwise the
\* chain goes on to itemgetter("query") | self.execute_query.
AfterGenerate(left, anyFailed, rawq) ==
    /\ pending' = left
    /\ IF left # {} THEN
            /\ raw_query' = rawq
            /\ UNCHANGED << pc, calls, response >>
       ELSE IF anyFailed THEN
            /\ ReturnError
            /\ UNCHANGED calls
       ELSE /\ raw_query' = rawq
            /\ calls' = Append(calls, "execute")
            /\ pc' = "executing"
            /\ UNCHANGED response

\* The language model answers one of the two generate calls.
GenerateReturns(raws) ==
    \E b \in pending, raw \in raws :
        /\ pc = "generating"
        /\ query' = IF b = "query" THEN clean_sql_query(raw) ELSE query
        /\ llm_response' = IF b = "query" THEN raw ELSE llm_response
        /\ AfterGenerate(pending \ {b}, error # "none",
                         IF b = "raw_query" THEN raw ELSE raw_query)
        /\ UNCHANGED << system, store, table_info, question, input_tokens,
                        result, error, health_out >>

\* One of the two generate calls raises.
GenerateRaises ==
    \E b \in pending :
        /\ pc = "generating"
        /\ error' = "generate"
        /\ AfterGenerate(pending \ {b}, TRUE, raw_query)
        /\ UNCHANGED << system, store, table_info, question, input_tokens,
                        query, llm_response, result, health_out >>

\* The query tool returns.  An empty result makes the final lambda answer
\* "No data available." and the success envelope is returned; otherwise the
\* lambda calls self.rephrase_answer.invoke.
ExecuteReturns ==
    /\ pc = "executing"
    /\ LET r == QuerySQLDataBaseTool(query, store)
       IN  /\ store' = r.rows
           /\ raw_query' = NONE
           /\ IF r.raised THEN
                   /\ error' = "sql"
                   /\ response' = ErrorEnvelope(input_tokens)
                   /\ pc' = "idle"
                   /\ UNCHANGED << result, calls >>
              ELSE /\ result' = r.text
                   /\ UNCHANGED error
                   /\ IF ShortCircuits(r.text) THEN
                           /\ response' = SuccessEnvelope(NoDataAnswer, query, input_tokens)
                           /\ pc' = "idle"
                           /\ UNCHANGED calls
                      ELSE /\ calls' = Append(calls, "rephrase")
                           /\ pc' = "rephrasing"
                           /\ UNCHANGED response
    /\ UNCHANGED << system, table_info, question, input_tokens, pending, query,
                    llm_response, health_out >>

\* The query tool raises (a failure other than one of the SQL engine).
ExecuteRaises ==
    /\ pc = "executing"
    /\ error' = "execute"
    /\ ReturnError
    /\ UNCHANGED << system, store, table_info, question, input_tokens, pending,
                    query, llm_response, result, calls, health_out >>

\* The language model answers the rephrase call: tokens are counted, the
\* links extracted and the success envelope returned.
RephraseReturns ==
    \E a \in ModelAnswers :
        /\ pc = "rephrasing"
        /\ response' = SuccessEnvelope(a, query, input_tokens)
        /\ pc' = "idle"
        /\ UNCHANGED << system, store, table_info, question, input_tokens,
                        pending, raw_query, query, llm_response, result, error,
                        calls, health_out >>

\* The rephrase call raises.
RephraseRaises ==
    /\ pc = "rephrasing"
    /\ error' = "rephrase"
    /\ ReturnError
    /\ UNCHANGED << system, store, table_info, question, input_tokens, pending,
                    query, llm_response, result, calls, health_out >>

Next ==
    \/ Health
    \/ AskNotInitialized
    \/ AskEmptyQuestion
    \/ AskStart
    \/ GenerateReturns(ModelQueries)
    \/ GenerateRaises
    \/ ExecuteReturns
    \/ ExecuteRaises
    \/ RephraseReturns
    \/ RephraseRaises

Spec == Init /\ [][Next]_vars

---------------------------------------------------------------------------
(* clean_sql_query on every text of RawTexts: a request whose raw_query    *)
(* branch has returned and whose query branch is about to.                 *)

InitClean ==
    /\ system = "ok"
    /\ store = << "row" >>
    /\ table_info = SchemaText
    /\ pc = "generating"
    /\ question = << "q" >>
    /\ input_tokens = Count(PromptStr(<< "q" >>, SchemaText))
    /\ pending = {"query"}
    /\ raw_query = << "x" >>
    /\ query = NONE
    /\ llm_response = NONE
    /\ result = NONE
    /\ error = "none"
    /\ calls = << "generate", "generate" >>
    /\ response = NoResponse
    /\ health_out = "none"

NextClean == GenerateReturns(RawTexts)

SpecClean == InitClean /\ [][NextClean]_vars

---------------------------------------------------------------------------
(* Properties                                                              *)

Occurrences(log, name) == Cardinality({ i \in 1..Len(log) : log[i] = name })

IsSuccess == response.kind = "envelope" /\ response.status = "success"

IsError == response.kind = "envelope" /\ response.status = "error"

\* C1: whenever a collaborator call (generate, execute, rephrase) raised,
\* the request ends with the error envelope: status "error", empty answer,
\* empty query, no raw_results, and tokens_used equal to the token count of
\* the generation prompt; an error envelope is returned in no other case.
C1_ErrorEnvelope ==
    /\ (pc = "idle" /\ error # "none") => IsError
    /\ IsError =>
        /\ error # "none"
        /\ response.answer = << >>
        /\ response.query = << >>
        /\ response.raw_results = << >>
        /\ response.tokens_used = Count(PromptStr(question, table_info))

C1_Witness ==
    /\ IsError
    /\ error = "rephrase"
    /\ query # NONE /\ query # << >>
    /\ response.tokens_used > 0

\* The engine rejects the statement: neither a read nor a write it can run.
Malformed(sql) == ~IsReadStatement(sql) /\ ~IsWriteStatement(sql)

\* C2 as stated: once a malformed cleaned statement was executed, the
\* rephraser is not called and the request ends with the error envelope.
C2_MalformedFailsRequest ==
    (query # NONE /\ Malformed(query) /\ pc \in {"rephrasing", "idle"}
        /\ Occurrences(calls, "execute") > 0)
    => /\ Occurrences(calls, "rephrase") = 0
       /\ pc = "idle" => IsError

\* C2 as amended: the query tool returns the engine's error for a malformed
\* statement as a non-empty text instead of raising.  Unless the tool call
\* raises for another reason the rephraser is called with that text, and
\* unless the rephraser raises the request ends with a success envelope
\* whose query is the malformed statement.
C2_MalformedReturnedAsText ==
    (query # NONE /\ Malformed(query) /\ pc \in {"rephrasing", "idle"}
        /\ Occurrences(calls, "execute") > 0 /\ error # "execute")
    => /\ result # NONE
       /\ Strip(result) # << >>
       /\ result[1] = "Error:"
       /\ Occurrences(calls, "rephrase") = 1
       /\ error \in {"none", "rephrase"}
       /\ (pc = "idle" /\ error = "none") =>
            (IsSuccess /\ response.query = query)
       /\ (pc = "idle" /\ error = "rephrase") => IsError

C2_Witness ==
    /\ IsSuccess
    /\ query = << "x" >>
    /\ response.query = << "x" >>
    /\ result = SqlErrorText
    /\ Occurrences(calls, "rephrase") = 1

\* C3: a result that is empty after trimming gives a success envelope whose
\* answer is "No data available." with no rephrase call in the request; the
\* rephraser is called only for a result that is non-empty after trimming.
C3_EmptyResultShortCircuit ==
    /\ (result # NONE /\ Strip(result) = << >>) =>
        /\ Occurrences(calls, "rephrase") = 0
        /\ IsSuccess
        /\ response.answer = NoDataAnswer
    /\ Occurrences(calls, "rephrase") > 0 =>
        (result # NONE /\ Strip(result) # << >>)

C3_Witness ==
    /\ result = << >>
    /\ IsSuccess
    /\ response.answer = NoDataAnswer
    /\ Occurrences(calls, "execute") = 1
    /\ Occurrences(calls, "rephrase") = 0

\* clean_sql_query has been applied to llm_response and gave query.
Cleaned == llm_response # NONE /\ query # NONE

\* Begins with SELECT in either case and ends with the terminator.
SelectForm(t) ==
    t # << >> /\ t[1] \in {"SELECT", "select"} /\ t[Len(t)] = ";"

\* A SELECT with a terminator after it occurs in t.
ContainsStatement(t) ==
    \E i \in 1..Len(t), k \in 1..Len(t) :
        i < k /\ t[i] \in {"SELECT", "select"} /\ t[k] = ";"

\* No newline, no blank at either end, no two blanks in a row.
WhitespaceNormal(t) ==
    /\ \A i \in 1..Len(t) : t[i] # "\n"
    /\ t # << >> => (t[1] # " " /\ t[Len(t)] # " ")
    /\ \A i \in 1..(Len(t) - 1) : ~(t[i] = " " /\ t[i + 1] = " ")

\* s is t with some lexemes left out.
RECURSIVE IsSubsequence(_, _)
IsSubsequence(s, t) ==
    IF s = << >> THEN TRUE
    ELSE IF t = << >> THEN FALSE
    ELSE IF s[1] = t[1] THEN IsSubsequence(Tail(s), Tail(t))
    ELSE IsSubsequence(s, Tail(t))

NonSpace(t) == SelectSeq(t, LAMBDA c : c \notin {" ", "\n"})

\* A text with nothing to strip: no pair of fences, no label word at its
\* start, whitespace already normal.
PlainText(t) ==
    /\ Cardinality({ i \in 1..Len(t) : t[i] = FENCE }) < 2
    /\ t # << >> => t[1] \notin {"SQL", "sql", "mysql", "postgresql"}
    /\ WhitespaceNormal(t)

\* C4 as stated: a non-empty cleaned text begins with SELECT and ends with
\* ';', or is the unmodified raw text.
C4_SelectFormOrRawUnmodified ==
    (Cleaned /\ query # << >>) => (SelectForm(query) \/ query = llm_response)

\* C4 as amended: a non-empty cleaned text begins with SELECT (in either
\* case) and ends with ';', or no SELECT-to-terminator statement occurs in
\* it and it is the raw text with fences and a leading label removed and
\* its whitespace collapsed and trimmed: its lexemes are lexemes of the raw
\* text in their order, its whitespace is normal, and it is the unmodified
\* raw text when that text has no fenced block, no leading label and
\* normal whitespace.
C4_SelectFormOrStrippedRaw ==
    (Cleaned /\ query # << >>) =>
        \/ SelectForm(query)
        \/ /\ ~ContainsStatement(query)
           /\ WhitespaceNormal(query)
           /\ IsSubsequence(NonSpace(query), NonSpace(llm_response))
           /\ PlainText(llm_response) => query = llm_response

C4_Witness ==
    /\ Cleaned
    /\ llm_response = << "SQL", ":", "x", "\n" >>
    /\ query = << "x" >>

\* The raw text is one fenced block and nothing else: a fence, a tag (the
\* longest recognized one that follows the fence) or none, the content, a
\* fence.
IsOneFencedBlock(t) ==
    /\ Len(t) >= 2
    /\ t[1] = FENCE /\ t[Len(t)] = FENCE
    /\ \A i \in 2..(Len(t) - 1) : t[i] # FENCE

RecognizedTags ==
    { << "sql" >>, << "SQL" >>, << "SQL", "Query" >>, << "mysql" >>,
      << "postgresql" >>, << >> }

FencedTag(t) ==
    LET inside == SubSeq(t, 2, Len(t) - 1)
        tags   == { g \in RecognizedTags : IsPrefix(g, inside) }
    IN  CHOOSE g \in tags : \A h \in tags : Len(h) <= Len(g)

FencedContent(t) == Drop(SubSeq(t, 2, Len(t) - 1), Len(FencedTag(t)))

\* C5: for a raw text that is one fenced block with a recognized tag (or
\* none), the cleaned text is made of the fenced content only: it holds no
\* fence marker and no lexeme that is not of the content (so no part of the
\* tag), and its whitespace is collapsed.
C5_OnlyFencedContent ==
    (Cleaned /\ IsOneFencedBlock(llm_response)) =>
        /\ \A i \in 1..Len(query) : query[i] # FENCE
        /\ IsSubsequence(NonSpace(query), NonSpace(FencedContent(llm_response)))
        /\ WhitespaceNormal(query)

\* C6: no step of any request changes the rows of the store or the schema
\* description.
C6_StoreAndSchemaReadOnly ==
    [][store' = store /\ table_info' = table_info]_vars

\* C7: in a success envelope returned after a non-empty result, tokens_used
\* is the token count of the generation prompt plus the token count of the
\* answer the envelope carries.
C7_TokensUsed ==
    (IsSuccess /\ result # NONE /\ Strip(result) # << >>) =>
        /\ input_tokens = Count(PromptStr(question, table_info))
        /\ response.tokens_used =
              Count(PromptStr(question, table_info)) + Count(response.answer)

C7_Witness ==
    /\ IsSuccess
    /\ Occurrences(calls, "rephrase") = 1
    /\ Len(response.answer) = 2
    /\ response.tokens_used = Count(PromptStr(question, table_info)) + 2

\* C8: a collaborator is called for a request only if the system was
\* initialized and the question is non-empty after trimming; a rejected
\* request calls none; the handle never changes after startup, so a failed
\* initialization is not attempted again and /health keeps answering
\* "unhealthy".
C8_PipelineGuard ==
    /\ [](calls # << >> => (system = "ok" /\ Strip(question) # << >>))
    /\ [](response.kind = "http" => (calls = << >> /\ pc = "idle"))
    /\ [](health_out = "healthy" => system = "ok")
    /\ [][system' = system]_vars
    /\ [][system = "none" => health_out' \in {health_out, "unhealthy"}]_vars

C8_Witness ==
    /\ system = "none"
    /\ health_out = "unhealthy"
    /\ response = HttpError("500")
    /\ calls = << >>

\* The characters that end a link.
LinkEnds == {" ", "\n", "|"}

EndsLink(c) == c \in LinkEnds

\* The maximal runs of t without a character that ends a link, in order.
RECURSIVE LinkRuns(_)
LinkRuns(t) ==
    IF t = << >> THEN << >>
    ELSE IF EndsLink(t[1]) THEN LinkRuns(Tail(t))
    ELSE LET e == FirstIn(t, 1, LinkEnds)
         IN  << SubSeq(t, 1, e - 1) >> \o LinkRuns(Drop(t, e - 1))

\* Where in a run an absolute link starts: http:// or https:// with a
\* character after it.
LinkStarts(r) ==
    { i \in 1..Len(r) :
        /\ r[i] = "http"
        /\ \/ (i + 2 <= Len(r) /\ r[i + 1] = "://")
           \/ (i + 3 <= Len(r) /\ r[i + 1] = "s" /\ r[i + 2] = "://") }

\* The links of a text: of every run that holds a link start, the part from
\* its first link start to its end.
RECURSIVE LinksOfRuns(_)
LinksOfRuns(rs) ==
    IF rs = << >> THEN << >>
    ELSE LET r == rs[1]
         IN  (IF LinkStarts(r) = {} THEN << >>
              ELSE << Drop(r, (CHOOSE i \in LinkStarts(r) :
                                  \A j \in LinkStarts(r) : i <= j) - 1) >>)
             \o LinksOfRuns(Tail(rs))

\* C9: in a success envelope raw_results is, in order of occurrence, one
\* {url: u} entry for each absolute http/https link of the answer, a link
\* ending at the first whitespace or pipe character: no url holds one.
C9_RawResultsAreLinks ==
    IsSuccess =>
        LET links == LinksOfRuns(LinkRuns(response.answer))
        IN  /\ response.raw_results = [k \in 1..Len(links) |-> [url |-> links[k]]]
            /\ \A k \in 1..Len(response.raw_results) :
                 \A i \in 1..Len(response.raw_results[k].url) :
                    ~EndsLink(response.raw_results[k].url[i])

C9_Witness ==
    /\ IsSuccess
    /\ response.answer = << "a", " ", "http", "s", "://", "a", "|", "a", " ", "a" >>
    /\ response.raw_results = << [url |-> << "http", "s", "://", "a" >>] >>

\* C10: within a request the generator is called once, the store at most
\* once and the rephraser at most once, no two calls are in flight together,
\* and the cleaned statement is the extractor applied to the raw response
\* the chain holds.
C10_SingleSequentialCalls ==
    /\ pc # "idle" => Occurrences(calls, "generate") = 1
    /\ Occurrences(calls, "generate") <= 1
    /\ Occurrences(calls, "execute") <= 1
    /\ Occurrences(calls, "rephrase") <= 1
    /\ Cardinality(pending) <= 1
    /\ (raw_query # NONE /\ query # NONE) => query = clean_sql_query(raw_query)

===========================================================================
